---- MODULE Spec2Model ----
(***************************************************************************)
(* Notification-admission gateway (Fritz-nvm/API-gateway-service).         *)
(*                                                                         *)
(* The repository holds two admission handlers named send_notification:    *)
(*   app = "main"    app/main.py, POST /api/v1/notify                      *)
(*   app = "router"  app/api/v1/endpoints/notifications.py,                *)
(*                   POST /notifications/send                              *)
(* A deployment serves one of them (main.py never mounts the router), so   *)
(* the handler is fixed in the initial state.  Both use the same Status    *)
(* Store client (app/services/status_service.py).                          *)
(*                                                                         *)
(* Every await of a handler is a separate step: other requests, the        *)
(* worker and key expiry interleave between two awaits of one request.     *)
(* A Redis call either answers or raises; the choice is made per call.     *)
(***************************************************************************)
EXTENDS Integers, FiniteSets, Sequences, TLC

\* ---------------------------------------------------------------- bounds
MaxReqs == 2
Reqs == 1..MaxReqs
\* TTL expiries and worker calls observed in one run
MaxExpiries == 1
MaxWorkerCalls == 1
\* settings.CIRCUIT_BREAKER_MAX_FAILURES of the deployment (5 when not set)
CIRCUIT_BREAKER_MAX_FAILURES == 2
\* protected calls started in one run, and how many of them await at once
MaxCalls == 4
MaxInflight == 2
\* STATUS_TTL_SECONDS (the 24 hours of a StatusRecord) in ticks of the clock
STATUS_TTL_SECONDS == 2

\* ------------------------------------------------------------- constants
Apps == {"main", "router"}
Keys == {"k1", "k2"}
NoKey == "nokey"
\* a notification id is minted once per request (uuid4): the request's index
Nids == Reqs
None == 0

NotificationType == {"email", "push"}
BodyTypes == NotificationType \cup {"sms"}
\* what a worker reports: <<new_status, error_message given>>
WorkerReports == {<<"delivered", FALSE>>, <<"failed", TRUE>>}

EMAIL_QUEUE_NAME == "email.queue"
PUSH_QUEUE_NAME == "push.queue"

\* clock readings: <<"start", n>> is current_time of the admission of n,
\* <<"update", n>> is utcnow() inside an update_status call for n
NoTime == <<"none", 0>>
NoRecord == [status |-> "none", notification_id |-> None, error_message |-> FALSE,
             created_at |-> NoTime, updated_at |-> NoTime]
NoResp == [code |-> 0, notification_id |-> None, status |-> "none", kind |-> "none"]
NoUser == [email |-> FALSE, push_token |-> FALSE, pref_email |-> FALSE, pref_push |-> FALSE]
NoHist == [looked |-> FALSE, pubs |-> 0, won |-> FALSE, lostTo |-> None,
           storeErr |-> FALSE, pubFailed |-> FALSE, lookupFail |-> "none"]
\* stored: what the store held for nid when the lookup ran; open: a breaker
\* was open when the probe ran
NoLook == [endpoint |-> "none", nid |-> None, code |-> 0, body |-> NoRecord,
           store_up |-> FALSE, transport_ready |-> FALSE, stored |-> NoRecord,
           open |-> FALSE]
NoUpd == [nid |-> None, new_status |-> "none", error_message |-> FALSE, rec |-> NoRecord]
NoMsg == [notification_id |-> None, notification_type |-> "none", exchange |-> "none",
          routing_key |-> "none", persistent |-> FALSE, correlation_id |-> "none",
          message_id |-> None]
\* update_status is called by the requests of main.py and by the worker (caller 0)
Worker == 0
Callers == {Worker} \cup Reqs
\* two workers that report on one notification at the same time
Workers == {Worker, -1}
AllKeys == Keys \cup {NoKey}

\* what the user service can answer with for one recipient
UserData ==
    { [email |-> TRUE,  push_token |-> TRUE,  pref_email |-> TRUE,  pref_push |-> TRUE],
      [email |-> TRUE,  push_token |-> TRUE,  pref_email |-> FALSE, pref_push |-> FALSE],
      [email |-> FALSE, push_token |-> FALSE, pref_email |-> TRUE,  pref_push |-> TRUE],
      [email |-> TRUE,  push_token |-> FALSE, pref_email |-> TRUE,  pref_push |-> FALSE],
      [email |-> FALSE, push_token |-> TRUE,  pref_email |-> FALSE, pref_push |-> TRUE] }
LookupFailures == {"status_404", "status_other", "request_error"}
PublishOutcomes == {"ok", "connect_failed", "publish_failed"}

\* the global circuit breaker instances, by their key in get_all_breakers_status
Breakers == {"user_service", "rabbitmq", "redis"}
NoBreaker == "none"
\* a pybreaker.CircuitBreaker after construction; elapsed: reset_timeout has
\* passed since opened_at
NewBreaker == [state |-> "closed", fail_counter |-> 0, elapsed |-> FALSE]
\* the functions called through a breaker or published through the queue service
Sites == {"user", "template", "publish", "wrapped", "wrapped_sync"}
Slots == 1..MaxInflight
\* n: protected calls made; ev .. ok: the last event; streak: failures in a
\* row of the function streak_site called through streak_breaker
NoBreakerHist == [n |-> 0, ev |-> "none", site |-> "none", breaker |-> NoBreaker,
                  trial |-> FALSE, ok |-> FALSE, streak_site |-> "none",
                  streak_breaker |-> NoBreaker, streak |-> 0]
\* the awaits of one attempt to set the transport up, in order
StartupSteps == <<"connect", "channel", "dlx", "failed_queue", "failed_bind", "exchange",
                  "email_queue", "email_bind", "push_queue", "push_bind">>
\* max_retries of startup_handler
max_retries == 5
PrimaryQueues == {EMAIL_QUEUE_NAME, PUSH_QUEUE_NAME}
\* everything else that startup declares at the broker
Declarations == {"dlx", "failed_queue", "failed_bind", "exchange", "email_bind", "push_bind"}
\* the transport before startup.  phase: redis, rabbit, up (startup returned),
\* failed (startup raised); ok: an attempt ran to its end; connection and
\* exchange: the module globals; queues, declared: the broker; qs: the
\* connection of the QueueService
MqBoot == [phase |-> "redis", attempt |-> 0, step |-> 0, ok |-> FALSE,
           connection |-> "none", exchange |-> FALSE,
           queues |-> [q \in PrimaryQueues |-> "absent"], declared |-> {},
           qs |-> "none"]
\* the transport after a startup whose first attempt went through
MqUp == [phase |-> "up", attempt |-> 1, step |-> Len(StartupSteps), ok |-> TRUE,
         connection |-> "open", exchange |-> TRUE,
         queues |-> [q \in PrimaryQueues |-> "dlx"], declared |-> Declarations,
         qs |-> "none"]
\* what a caller of update_status can pass: <<new_status, error_message given>>;
\* new_status is a str
UpdateInputs == WorkerReports \cup {<<"processing", FALSE>>, <<"cancelled", FALSE>>}

VARIABLES
    app,        \* which handler this deployment serves
    pc,         \* pc[r]: position of request r in its handler
    key,        \* key[r]: Idempotency-Key header (main) / request_id (router)
    ntype,      \* ntype[r]: notification_type of the body
    existing,   \* existing[r]: local existing_id / existing_notif_id
    udata,      \* udata[r]: local user_data of the router handler (kept after a
                \* rejection by the preference check)
    resp,       \* resp[r]: the response sent to the client
    idem,       \* Redis idempotency:{key} -> notification id
    status,     \* Redis notification:status:{id} -> StatusRecord
    queue,      \* messages handed to the broker
    upd,        \* upd[c]: caller c's update_status call between its GET and SETEX
    breakers,   \* breakers[b]: pybreaker state of the breaker instance b
    calls,      \* the protected calls between their start and the end of their await
    bh,         \* history of the protected calls: count, last event, failure streak
    look,       \* the last answer of a GET endpoint (status lookup, health), if any
    ttl,        \* ttl[n]: Redis TTL of notification:status:{n}, 0 when the key is absent
    mq,         \* the queue transport: startup progress, module globals, broker topology
    expired,    \* history: expired[k], the key's lock has expired at least once
    used,       \* used.expiries, used.updates: events counted against the bounds
    after,      \* history: after[r], the requests with r's key answered before r arrived
    h           \* history: h[r], what request r did

vars == <<app, pc, key, ntype, existing, udata, resp, idem, status, queue, upd,
          breakers, calls, bh, look, ttl, mq, expired, used, after, h>>

\* the state of everything but the transport when the first request arrives
InitStore ==
    /\ app \in Apps
    /\ pc = [r \in Reqs |-> "idle"]
    /\ key = [r \in Reqs |-> NoKey]
    /\ ntype = [r \in Reqs |-> "email"]
    /\ existing = [r \in Reqs |-> None]
    /\ udata = [r \in Reqs |-> NoUser]
    /\ resp = [r \in Reqs |-> NoResp]
    /\ idem = [k \in AllKeys |-> None]
    /\ status = [n \in Nids |-> NoRecord]
    /\ queue = {}
    /\ upd = [c \in Callers |-> NoUpd]
    /\ breakers = [b \in Breakers |-> NewBreaker]
    /\ calls = {}
    /\ bh = NoBreakerHist
    /\ look = {}
    /\ ttl = [n \in Nids |-> 0]
    /\ expired = [k \in AllKeys |-> FALSE]
    /\ used = [expiries |-> 0, updates |-> 0, ticks |-> 0]
    /\ after = [r \in Reqs |-> {}]
    /\ h = [r \in Reqs |-> NoHist]

\* requests are served once startup has returned
Init ==
    /\ InitStore
    /\ mq = MqUp

\* ------------------------------------------------ Status Store operations

\* check_idempotency_key that never finds the key
check_idempotency_key_miss(k, up) ==
    None

\* StatusService.check_idempotency_key: GET; a Redis error is logged and
\* answered with None.
check_idempotency_key(k, up) ==
    IF up THEN idem[k] ELSE None

\* set_idempotency_key that reports success without the NX test
set_idempotency_key_no_nx(k, n, up) ==
    up

\* set_idempotency_key that reports success when Redis raises
set_idempotency_key_true_on_error(k, n, up) ==
    ~up \/ idem[k] = None

\* StatusService.set_idempotency_key: the value returned (SET .. NX EX);
\* a Redis error is logged and answered with False.
set_idempotency_key(k, n, up) ==
    up /\ idem[k] = None

\* set_idempotency_key as a plain SET: an existing mapping is overwritten
idem_after_set_overwrite(k, n, up) ==
    IF up THEN [idem EXCEPT ![k] = n] ELSE idem

\* StatusService.set_idempotency_key: the mapping after the call.
idem_after_set(k, n, up) ==
    IF up /\ idem[k] = None THEN [idem EXCEPT ![k] = n] ELSE idem

\* StatusService.get_status: GET; absent and Redis error both give None.
get_status(n, up) ==
    IF up THEN status[n] ELSE NoRecord

\* StatusService.set_initial_status: updated_at defaults to created_at, then
\* SETEX of the serialized record.
set_initial_status(rec, up) ==
    IF up
      THEN [status EXCEPT ![rec.notification_id] =
              [status |-> rec.status, notification_id |-> rec.notification_id,
               error_message |-> FALSE,
               created_at |-> rec.created_at, updated_at |-> rec.created_at]]
      ELSE status

\* update_status that starts from an empty record when none is stored
update_status_read_upsert(n, up) ==
    IF ~up THEN NoRecord
    ELSE IF status[n] = NoRecord
           THEN [NoRecord EXCEPT !.notification_id = n]
           ELSE status[n]

\* StatusService.update_status, first half: the GET and the existence test.
update_status_read(n, up) ==
    IF up THEN status[n] ELSE NoRecord

\* update_status that stores the error_message argument as it is given
update_status_record_error_overwritten(rec, new_status, error_message) ==
    [rec EXCEPT !.status = new_status,
                !.updated_at = <<"update", rec.notification_id>>,
                !.error_message = error_message]

\* update_status that leaves updated_at as it was read
update_status_record_stale(rec, new_status, error_message) ==
    [rec EXCEPT !.status = new_status,
                !.error_message = IF error_message THEN TRUE ELSE @]

\* StatusService.update_status, second half: the record that is written.
update_status_record(rec, new_status, error_message) ==
    [rec EXCEPT !.status = new_status,
                !.updated_at = <<"update", rec.notification_id>>,
                !.error_message = IF error_message THEN TRUE ELSE @]

\* set_initial_status: client.setex(key, STATUS_TTL_SECONDS, ..); no write,
\* no new lifetime
ttl_after_initial(n, up) ==
    IF up THEN [ttl EXCEPT ![n] = STATUS_TTL_SECONDS] ELSE ttl

\* update_status that writes the record and keeps the lifetime it had
ttl_after_update_keepttl(n, up) ==
    ttl

\* update_status: client.setex(key, STATUS_TTL_SECONDS, ..) resets the
\* lifetime of the key to the full window
ttl_after_update(n, up) ==
    IF up THEN [ttl EXCEPT ![n] = STATUS_TTL_SECONDS] ELSE ttl

\* current_time = datetime.utcnow() at the start of the handler
current_time(r) ==
    <<"start", r>>

\* the record of n as set_initial_status stores it at the end of the
\* router handler
queued_record(n) ==
    [status |-> "queued", notification_id |-> n, error_message |-> FALSE,
     created_at |-> current_time(n), updated_at |-> current_time(n)]

Done(r, code, n, st, kind) ==
    /\ pc' = [pc EXCEPT ![r] = "done"]
    /\ resp' = [resp EXCEPT ![r] = [code |-> code, notification_id |-> n,
                                    status |-> st, kind |-> kind]]

\* ------------------------------------------------------ request admission

\* validation that accepts any notification_type
body_valid_any_type(t, k) ==
    app = "router" => k # NoKey

\* FastAPI validates the body against the schema before the handler runs:
\* notification_type must be a NotificationType, and the router's
\* NotificationRequest requires request_id.
body_valid(t, k) ==
    /\ t \in NotificationType
    /\ (app = "router" => k # NoKey)

\* the header test left out
header_never_missing(k) ==
    FALSE

\* main.py send_notification: the Idempotency-Key header test.
header_missing(k) ==
    k = NoKey

\* A request arrives; requests are numbered in order of arrival and the
\* opaque keys are named in order of first use.  The valid requests of one
\* run ask for one channel (the handlers read the channel only to check
\* the preferences of, and to route, the request's own message).
Receive(r) ==
    /\ pc[r] = "idle"
    /\ \A q \in Reqs : q < r => pc[q] # "idle"
    /\ \E k \in AllKeys, t \in BodyTypes :
        /\ k = "k2" => \E q \in Reqs : q < r /\ key[q] = "k1"
        /\ t \in NotificationType =>
               \A q \in Reqs : (q < r /\ ntype[q] \in NotificationType) => ntype[q] = t
        /\ key' = [key EXCEPT ![r] = k]
        /\ ntype' = [ntype EXCEPT ![r] = t]
        /\ after' = [after EXCEPT ![r] =
                       IF body_valid(t, k) /\ ~header_missing(k)
                         THEN {q \in Reqs : pc[q] = "done" /\ key[q] = k}
                         ELSE {}]
        /\ IF ~body_valid(t, k)
             THEN Done(r, 422, None, "none", "err")
             ELSE IF app = "main" /\ header_missing(k)
               THEN Done(r, 400, None, "none", "err")
               ELSE /\ pc' = [pc EXCEPT ![r] = IF app = "main" THEN "m_check" ELSE "r_idem"]
                    /\ resp' = resp
    /\ UNCHANGED <<app, used, existing, udata, idem, status, queue, upd, breakers, calls, bh, look, expired, h, ttl, mq>>

\* ----------------------------------------- main.py send_notification

\* existing_id = await status_service.check_idempotency_key(idempotency_key)
m_check(r) ==
    /\ app = "main" /\ pc[r] = "m_check"
    /\ \E up \in BOOLEAN :
        LET e == check_idempotency_key(key[r], up) IN
        /\ existing' = [existing EXCEPT ![r] = e]
        /\ h' = [h EXCEPT ![r].storeErr = ~up]
        /\ IF e # None
             THEN Done(r, 202, e, "none", "dup")
             ELSE /\ pc' = [pc EXCEPT ![r] = "m_update"]
                  /\ resp' = resp
    /\ UNCHANGED <<app, used, key, ntype, udata, idem, status, queue, upd, breakers, calls, bh, look, expired, after, ttl, mq>>

\* await status_service.update_status(notification_id, "pending"): the GET
m_update(r) ==
    /\ app = "main" /\ pc[r] = "m_update"
    /\ \E up \in BOOLEAN :
        LET rec == update_status_read(r, up) IN
        /\ IF rec = NoRecord
             THEN /\ pc' = [pc EXCEPT ![r] = "m_set"]
                  /\ upd' = upd
             ELSE /\ pc' = [pc EXCEPT ![r] = "m_update_w"]
                  /\ upd' = [upd EXCEPT ![r] = [nid |-> r, new_status |-> "pending",
                                                error_message |-> FALSE, rec |-> rec]]
    /\ UNCHANGED <<app, used, key, ntype, existing, udata, resp, idem, status, queue,
                   breakers, calls, bh, look, expired, after, h, ttl, mq>>

\* if not await status_service.set_idempotency_key(idempotency_key, notification_id)
m_set(r) ==
    /\ app = "main" /\ pc[r] = "m_set"
    /\ \E up \in BOOLEAN :
        LET ok == set_idempotency_key(key[r], r, up) IN
        /\ idem' = idem_after_set(key[r], r, up)
        /\ h' = [h EXCEPT ![r].won = ok,
                          ![r].lostTo = IF up /\ ~ok THEN idem[key[r]] ELSE None]
        /\ pc' = [pc EXCEPT ![r] = IF ok THEN "m_publish" ELSE "m_recheck"]
    /\ UNCHANGED <<app, used, key, ntype, existing, udata, resp, status, queue, upd,
                   breakers, calls, bh, look, expired, after, ttl, mq>>

\* the lost race: the key is read again and 409 is raised
m_recheck(r) ==
    /\ app = "main" /\ pc[r] = "m_recheck"
    /\ \E up \in BOOLEAN :
        /\ existing' = [existing EXCEPT ![r] = check_idempotency_key(key[r], up)]
        /\ Done(r, 409, None, "none", "err")
    /\ UNCHANGED <<app, used, key, ntype, udata, idem, status, queue, upd, breakers, calls, bh, look, expired,
                   after, h, ttl, mq>>

\* main.py publish_message: the message handed to NOTIFICATION_EXCHANGE
publish_message(t, n, k) ==
    [notification_id |-> n, notification_type |-> t, exchange |-> "notifications.direct",
     routing_key |-> t, persistent |-> TRUE, correlation_id |-> k,
     message_id |-> None]

\* a failed publish that deletes the idempotency key
idem_after_failed_publish_released(k) ==
    [idem EXCEPT ![k] = None]

\* the except clause of the publish: no cleanup, the key is left to expire
idem_after_failed_publish(k) ==
    idem

\* try: await publish_message(...) except: 503; then 202
m_publish(r) ==
    /\ app = "main" /\ pc[r] = "m_publish"
    /\ \E ok \in BOOLEAN :
        IF ok
          THEN /\ queue' = queue \cup {publish_message(ntype[r], r, key[r])}
               /\ h' = [h EXCEPT ![r].pubs = @ + 1]
               /\ idem' = idem
               /\ Done(r, 202, r, "none", "new")
          ELSE /\ queue' = queue
               /\ h' = [h EXCEPT ![r].pubFailed = TRUE]
               /\ idem' = idem_after_failed_publish(key[r])
               /\ Done(r, 503, None, "none", "err")
    /\ UNCHANGED <<app, used, key, ntype, existing, udata, status, upd, breakers, calls, bh, look,
                   expired, after, ttl, mq>>

\* ------------------- endpoints/notifications.py send_notification

\* idempotency_service.check_and_store_idempotency_key: already_processed.
\* The service creates the key -> id mapping only if absent, atomically.
check_and_store_already(k, n) ==
    idem[k] # None

\* idempotency_service.check_and_store_idempotency_key: existing id returned.
check_and_store_existing(k, n) ==
    idem[k]

\* idempotency_service.check_and_store_idempotency_key: mapping after the call.
check_and_store_idem(k, n) ==
    IF idem[k] = None THEN [idem EXCEPT ![k] = n] ELSE idem

\* a handler that publishes right after taking the lock
r_after_idem_no_lookup(already_processed) ==
    IF already_processed THEN "r_dup" ELSE "r_publish"

\* if already_processed: the cached status is returned; otherwise the
\* handler goes on to the lookups
r_after_idem(already_processed) ==
    IF already_processed THEN "r_dup" ELSE "r_lookup"

\* 1. Idempotency Check; a storage error surfaces as service unavailable
r_idem(r) ==
    /\ app = "router" /\ pc[r] = "r_idem"
    /\ \E up \in BOOLEAN :
        IF ~up
          THEN /\ h' = [h EXCEPT ![r].storeErr = TRUE]
               /\ Done(r, 503, None, "none", "err")
               /\ UNCHANGED <<idem, existing>>
          ELSE LET dup == check_and_store_already(key[r], r)
                   e == check_and_store_existing(key[r], r) IN
               /\ idem' = check_and_store_idem(key[r], r)
               /\ existing' = [existing EXCEPT ![r] = IF dup THEN e ELSE None]
               /\ h' = [h EXCEPT ![r].won = ~dup]
               /\ pc' = [pc EXCEPT ![r] = r_after_idem(dup)]
               /\ resp' = resp
    /\ UNCHANGED <<app, used, key, ntype, udata, status, queue, upd, breakers, calls, bh, look, expired, after, ttl, mq>>

\* the status the duplicate is answered with: the cached one, else "queued"
duplicate_status(cached) ==
    IF cached # NoRecord THEN cached.status ELSE "queued"

\* if already_processed: cached_status = await status_service.get_status(..)
r_dup(r) ==
    /\ app = "router" /\ pc[r] = "r_dup"
    /\ \E up \in BOOLEAN :
        LET cached == get_status(existing[r], up) IN
        Done(r, 202, existing[r], duplicate_status(cached), "dup")
    /\ UNCHANGED <<app, used, key, ntype, existing, udata, idem, status, queue, upd,
                   breakers, calls, bh, look, expired, after, h, ttl, mq>>

\* Preference Check that requires the opt-in of both channels
preference_check_both_channels(t, d) ==
    IF ~d.pref_email \/ ~d.pref_push THEN 403
    ELSE IF t = "email" /\ ~d.email THEN 400
    ELSE IF t = "push" /\ ~d.push_token THEN 400
    ELSE 0

\* Preference Check without the opt-out tests
preference_check_no_optout(t, d) ==
    IF t = "email" /\ ~d.email THEN 400
    ELSE IF t = "push" /\ ~d.push_token THEN 400
    ELSE 0

\* 3. Preference Check: the HTTP status raised, 0 when the checks pass
preference_check(t, d) ==
    IF t = "email" /\ ~d.pref_email THEN 403
    ELSE IF t = "email" /\ ~d.email THEN 400
    ELSE IF t = "push" /\ ~d.pref_push THEN 403
    ELSE IF t = "push" /\ ~d.push_token THEN 400
    ELSE 0

\* except clauses that answer 502 for every HTTP status error
lookup_failure_code_merged(f) ==
    CASE f = "breaker_open" -> 503
      [] f = "status_404" -> 502
      [] f = "status_other" -> 502
      [] f = "request_error" -> 504

\* the except clauses around the user service call
lookup_failure_code(f) ==
    CASE f = "breaker_open" -> 503
      [] f = "status_404" -> 404
      [] f = "status_other" -> 502
      [] f = "request_error" -> 504

\* 2. Synchronous Lookups and 3. Preference Check.  user_service_breaker
\* decorates an async function: the breaker sees the call return a
\* coroutine and counts a success; the failure is raised by the await.
r_lookup(r) ==
    /\ app = "router" /\ pc[r] = "r_lookup"
    /\ IF breakers["user_service"].state = "open"
         THEN /\ Done(r, lookup_failure_code("breaker_open"), None, "none", "err")
              /\ h' = [h EXCEPT ![r].lookupFail = "breaker_open"]
              /\ UNCHANGED <<udata, breakers>>
         ELSE /\ breakers' = [breakers EXCEPT !["user_service"].fail_counter = 0]
              /\ \/ \E f \in LookupFailures :
                       /\ Done(r, lookup_failure_code(f), None, "none", "err")
                       /\ h' = [h EXCEPT ![r].lookupFail = f]
                       /\ udata' = udata
                 \/ \E d \in UserData :
                       /\ h' = [h EXCEPT ![r].looked = TRUE]
                       /\ udata' = [udata EXCEPT ![r] = d]
                       /\ IF preference_check(ntype[r], d) # 0
                            THEN Done(r, preference_check(ntype[r], d), None, "none", "err")
                            ELSE /\ pc' = [pc EXCEPT ![r] = "r_publish"]
                                 /\ resp' = resp
    /\ UNCHANGED <<app, used, key, ntype, existing, idem, status, queue, upd, calls, bh,
                   look, expired, after, ttl, mq>>

\* QueueService.publish_notification: the message and its routing
publish_notification(t, n) ==
    [notification_id |-> n, notification_type |-> t, exchange |-> "default",
     routing_key |-> IF t = "email" THEN EMAIL_QUEUE_NAME ELSE PUSH_QUEUE_NAME,
     persistent |-> TRUE, correlation_id |-> "correlation_id",
     message_id |-> n]

\* the primary queue of a channel
channel_queue(t) ==
    IF t = "email" THEN EMAIL_QUEUE_NAME ELSE PUSH_QUEUE_NAME

\* the queue a message reaches: the default exchange routes to the queue
\* named by the routing key, notifications.direct to the queue that startup
\* bound with the routing key (email -> email queue, push -> push queue)
destination(m) ==
    IF m.exchange = "default" THEN m.routing_key
    ELSE IF m.routing_key \in NotificationType THEN channel_queue(m.routing_key)
    ELSE "none"

\* a publish whose failures are swallowed
publish_error_swallowed(out) ==
    0

\* QueueService: the HTTPException raised, 0 when the publish went through:
\* connect() raises 503, the publish raises 500
publish_error(out) ==
    CASE out = "ok" -> 0
      [] out = "connect_failed" -> 503
      [] out = "publish_failed" -> 500

\* 5. Asynchronous Publishing: the exception of the queue service is re-raised
r_publish(r) ==
    /\ app = "router" /\ pc[r] = "r_publish"
    /\ \E out \in PublishOutcomes :
        /\ queue' = IF out = "ok" THEN queue \cup {publish_notification(ntype[r], r)}
                                  ELSE queue
        /\ h' = [h EXCEPT ![r].pubs = IF out = "ok" THEN @ + 1 ELSE @,
                          ![r].pubFailed = out # "ok"]
        /\ udata' = [udata EXCEPT ![r] = NoUser]
        /\ IF publish_error(out) = 0
             THEN /\ pc' = [pc EXCEPT ![r] = "r_setstatus"]
                  /\ resp' = resp
             ELSE Done(r, publish_error(out), None, "none", "err")
    /\ UNCHANGED <<app, used, key, ntype, existing, idem, status, upd, breakers, calls, bh, look,
                   expired, after, ttl, mq>>

\* 6. Return Response: set_initial_status, its result ignored, then 202
r_setstatus(r) ==
    /\ app = "router" /\ pc[r] = "r_setstatus"
    /\ \E up \in BOOLEAN :
        /\ status' = set_initial_status([status |-> "queued", notification_id |-> r,
                                         created_at |-> current_time(r)], up)
        /\ ttl' = ttl_after_initial(r, up)
        /\ Done(r, 202, r, "queued", "new")
    /\ UNCHANGED <<app, used, key, ntype, existing, udata, idem, queue, upd, breakers, calls, bh, look,
                   expired, after, h, mq>>

\* ------------------------------------------------------- status lookup

\* get_notification_status: the HTTP status of the answer.  A falsy
\* get_status result is answered 404; main.py then calls model_dump on the
\* dict that get_status returns, which raises (500).
get_notification_status(n, up) ==
    IF get_status(n, up) = NoRecord THEN 404
    ELSE IF app = "router" THEN 200 ELSE 500

\* ------------------------------------------------ worker and key expiry

\* a worker that took the work item of n from the queue calls
\* update_status: the GET; the call returns False when nothing is read
worker_update(c, n, reports) ==
    /\ upd[c] = NoUpd
    /\ \E m \in queue : m.notification_id = n
    /\ used.updates < MaxWorkerCalls * Cardinality(DOMAIN upd \ Reqs)
    /\ used' = [used EXCEPT !.updates = @ + 1]
    /\ \/ /\ \E up \in BOOLEAN : update_status_read(n, up) = NoRecord
          /\ upd' = upd
       \/ \E w \in reports, up \in BOOLEAN :
            LET rec == update_status_read(n, up) IN
            /\ rec # NoRecord
            /\ upd' = [upd EXCEPT ![c] = [nid |-> n, new_status |-> w[1],
                                               error_message |-> w[2], rec |-> rec]]
    /\ UNCHANGED <<app, pc, key, ntype, existing, udata, resp, idem, status, queue,
                   breakers, calls, bh, look, expired, after, h, ttl, mq>>

\* update_status: the SETEX of the modified copy that was read
update_status_write(c) ==
    /\ upd[c] # NoUpd
    /\ \E up \in BOOLEAN :
        /\ status' = IF up
                       THEN [status EXCEPT ![upd[c].nid] =
                               update_status_record(upd[c].rec, upd[c].new_status,
                                                    upd[c].error_message)]
                       ELSE status
        /\ ttl' = ttl_after_update(upd[c].nid, up)
    /\ upd' = [upd EXCEPT ![c] = NoUpd]
    /\ pc' = IF c \in Reqs THEN [pc EXCEPT ![c] = "m_set"] ELSE pc
    /\ UNCHANGED <<app, used, key, ntype, existing, udata, resp, idem, queue, breakers, calls, bh, look,
                   expired, after, h, mq>>

\* Redis drops idempotency:{key} when IDEMPOTENCY_TTL_SECONDS have passed
expire_idempotency_key(k) ==
    /\ idem[k] # None
    /\ used.expiries < MaxExpiries
    /\ used' = [used EXCEPT !.expiries = @ + 1]
    /\ idem' = [idem EXCEPT ![k] = None]
    /\ expired' = [expired EXCEPT ![k] = TRUE]
    /\ UNCHANGED <<app, pc, key, ntype, existing, udata, resp, status, queue, upd,
                   breakers, calls, bh, look, after, h, ttl, mq>>

\* Redis drops notification:status:{id} when STATUS_TTL_SECONDS have passed
expire_status(n) ==
    /\ status[n] # NoRecord
    /\ used.expiries < MaxExpiries
    /\ used' = [used EXCEPT !.expiries = @ + 1]
    /\ status' = [status EXCEPT ![n] = NoRecord]
    /\ ttl' = [ttl EXCEPT ![n] = 0]
    /\ UNCHANGED <<app, pc, key, ntype, existing, udata, resp, idem, queue, upd,
                   breakers, calls, bh, look, expired, after, h, mq>>

Next ==
    \/ \E r \in Reqs : Receive(r)
    \/ \E r \in Reqs : m_check(r)
    \/ \E r \in Reqs : m_update(r)
    \/ \E r \in Reqs : m_set(r)
    \/ \E r \in Reqs : m_recheck(r)
    \/ \E r \in Reqs : m_publish(r)
    \/ \E r \in Reqs : r_idem(r)
    \/ \E r \in Reqs : r_dup(r)
    \/ \E r \in Reqs : r_lookup(r)
    \/ \E r \in Reqs : r_publish(r)
    \/ \E r \in Reqs : r_setstatus(r)
    \/ \E n \in Nids : worker_update(Worker, n, WorkerReports)
    \/ \E c \in Callers : update_status_write(c)
    \/ \E k \in AllKeys : expire_idempotency_key(k)
    \/ \E n \in Nids : expire_status(n)

Spec == Init /\ [][Next]_vars

\* ------------------------------------------ the Status Store after admission

\* GET /notifications/{notification_id}/status
status_lookup(n) ==
    /\ \E up \in BOOLEAN :
        look' = {[NoLook EXCEPT !.endpoint = "status", !.nid = n,
                                !.code = get_notification_status(n, up),
                                !.body = IF get_notification_status(n, up) = 200
                                           THEN get_status(n, up) ELSE NoRecord,
                                !.store_up = up,
                                !.stored = status[n]]}
    /\ UNCHANGED <<app, pc, key, ntype, existing, udata, resp, idem, status, queue, upd,
                   breakers, calls, bh, expired, used, after, h, ttl, mq>>

\* The router handler has accepted every request: each work item is with
\* the broker, and each record is stored unless its SETEX failed; some of
\* the lifetime of a stored record may have passed.  The operations below
\* read none of the request-side variables.
InitStatusFor(callers) ==
    /\ app = "router"
    /\ pc = [r \in Reqs |-> "idle"]
    /\ key = [r \in Reqs |-> NoKey]
    /\ ntype = [r \in Reqs |-> "email"]
    /\ existing = [r \in Reqs |-> None]
    /\ udata = [r \in Reqs |-> NoUser]
    /\ resp = [r \in Reqs |-> NoResp]
    /\ idem = [k \in AllKeys |-> None]
    /\ status \in [Nids -> {NoRecord} \cup {queued_record(n) : n \in Nids}]
    /\ \A n \in Nids : status[n] \in {NoRecord, queued_record(n)}
    /\ queue = {publish_notification("email", n) : n \in Nids}
    /\ upd = [c \in callers |-> NoUpd]
    /\ breakers = [b \in Breakers |-> NewBreaker]
    /\ calls = {}
    /\ bh = NoBreakerHist
    /\ look = {}
    /\ mq = MqUp
    /\ ttl \in [Nids -> 0..STATUS_TTL_SECONDS]
    /\ \A n \in Nids : ttl[n] = 0 <=> status[n] = NoRecord
    /\ expired = [k \in AllKeys |-> FALSE]
    /\ used = [expiries |-> 0, updates |-> 0, ticks |-> 0]
    /\ after = [r \in Reqs |-> {}]
    /\ h = [r \in Reqs |-> NoHist]

InitStatus ==
    InitStatusFor(Callers)

NextStatus ==
    \/ \E n \in Nids : worker_update(Worker, n, UpdateInputs)
    \/ update_status_write(Worker)
    \/ \E n \in Nids : expire_status(n)
    \/ \E n \in Nids : status_lookup(n)

SpecStatus == InitStatus /\ [][NextStatus]_vars

\* ------------------------------------------------- the lifetime of a record

\* Redis: a tick of the clock passes; the lifetime of every key goes down by
\* one and a key whose lifetime is over is dropped
tick ==
    /\ \E n \in Nids : ttl[n] > 0
    /\ ttl' = [n \in Nids |-> IF ttl[n] > 0 THEN ttl[n] - 1 ELSE 0]
    /\ status' = [n \in Nids |-> IF ttl[n] = 1 THEN NoRecord ELSE status[n]]
    /\ used' = [used EXCEPT !.ticks = @ + 1]
    /\ UNCHANGED <<app, pc, key, ntype, existing, udata, resp, idem, queue, upd,
                   breakers, calls, bh, look, expired, after, h, mq>>

NextLife ==
    \/ \E n \in Nids : worker_update(Worker, n, UpdateInputs)
    \/ update_status_write(Worker)
    \/ tick

SpecLife == InitStatus /\ [][NextLife]_vars

\* ------------------------------------------------------ concurrent updates

\* two workers call update_status, each call a GET followed by a SETEX
NextUpdates ==
    \/ \E c \in Workers, n \in Nids : worker_update(c, n, UpdateInputs)
    \/ \E c \in Workers : update_status_write(c)

InitUpdates ==
    InitStatusFor(Workers)

SpecUpdates == InitUpdates /\ [][NextUpdates]_vars

\* --------------------------------------------- startup and the transport

\* the arguments a primary queue is declared with: dlq_args at startup
startup_queue_args ==
    "dlx"

\* the arguments a primary queue is declared with by QueueService.connect
connect_queue_args ==
    "plain"

\* the broker refuses to declare again a queue that exists with other
\* arguments (PRECONDITION_FAILED)
declare_refused(q, args) ==
    mq.queues[q] \notin {"absent", args}

\* the step of the attempt cannot go through at this broker
step_refused(s) ==
    \/ s = "email_queue" /\ declare_refused(EMAIL_QUEUE_NAME, startup_queue_args)
    \/ s = "push_queue" /\ declare_refused(PUSH_QUEUE_NAME, startup_queue_args)

\* what one await of the attempt leaves behind when it returns: the module
\* globals that are assigned and what the broker has declared
after_step(s) ==
    CASE s = "connect" -> [mq EXCEPT !.connection = "open"]
      [] s = "channel" -> mq
      [] s = "exchange" -> [mq EXCEPT !.exchange = TRUE, !.declared = @ \cup {s}]
      [] s = "email_queue" -> [mq EXCEPT !.queues[EMAIL_QUEUE_NAME] = startup_queue_args]
      [] s = "push_queue" -> [mq EXCEPT !.queues[PUSH_QUEUE_NAME] = startup_queue_args]
      [] OTHER -> [mq EXCEPT !.declared = @ \cup {s}]

\* attempts of one startup: the range of the loop in startup_handler,
\* a single try block in startup_event of main.py
attempts_allowed ==
    IF app = "router" THEN max_retries ELSE 1

\* the except clause of the last attempt: startup_handler raises
\* RuntimeError, startup_event logs the error and returns
after_last_failure ==
    IF app = "router" THEN "failed" ELSE "up"

\* startup, the Status Store part: the client is created and pinged;
\* startup_handler raises when that fails, startup_event logs and goes on.
\* (_wait_for_tcp then waits for the port at most 30 times; its result is
\* not looked at.)
startup_redis ==
    /\ mq.phase = "redis"
    /\ \E up \in BOOLEAN :
        mq' = IF up \/ app = "main"
                THEN [mq EXCEPT !.phase = "rabbit", !.attempt = 1, !.step = 1]
                ELSE [mq EXCEPT !.phase = "failed"]
    /\ UNCHANGED <<app, pc, key, ntype, existing, udata, resp, idem, status, queue, upd,
                   breakers, calls, bh, look, ttl, expired, used, after, h>>

\* startup, one await of the current attempt: it returns, or it raises and
\* the except clause retries, gives up or logs
startup_await ==
    /\ mq.phase = "rabbit"
    /\ LET s == StartupSteps[mq.step] IN
       \E ok \in BOOLEAN :
        /\ ok => ~step_refused(s)
        /\ mq' = IF ok
                   THEN IF mq.step = Len(StartupSteps)
                          THEN [after_step(s) EXCEPT !.phase = "up", !.ok = TRUE]
                          ELSE [after_step(s) EXCEPT !.step = @ + 1]
                   ELSE IF mq.attempt < attempts_allowed
                          THEN [mq EXCEPT !.attempt = @ + 1, !.step = 1]
                          ELSE [mq EXCEPT !.phase = after_last_failure]
    /\ UNCHANGED <<app, pc, key, ntype, existing, udata, resp, idem, status, queue, upd,
                   breakers, calls, bh, look, ttl, expired, used, after, h>>

\* QueueService.connect, called by publish_notification when the service
\* has no channel: connection, channel, then the two primary queues are
\* declared durable and without arguments.  far: the awaits that returned.
connect ==
    /\ app = "router"
    /\ mq.qs = "none"
    /\ \E far \in 0..3 :
        /\ far >= 2 => ~declare_refused(EMAIL_QUEUE_NAME, connect_queue_args)
        /\ far >= 3 => ~declare_refused(PUSH_QUEUE_NAME, connect_queue_args)
        /\ mq' = [mq EXCEPT
                    !.qs = IF far >= 1 THEN "connected" ELSE @,
                    !.queues = [q \in PrimaryQueues |->
                                  IF \/ q = EMAIL_QUEUE_NAME /\ far >= 2
                                     \/ q = PUSH_QUEUE_NAME /\ far >= 3
                                    THEN connect_queue_args ELSE mq.queues[q]]]
    /\ UNCHANGED <<app, pc, key, ntype, existing, udata, resp, idem, status, queue, upd,
                   breakers, calls, bh, look, ttl, expired, used, after, h>>

\* shutdown_handler / shutdown_event: the connection of startup is closed
shutdown ==
    /\ mq.phase = "up"
    /\ mq.connection = "open"
    /\ mq' = [mq EXCEPT !.connection = "closed"]
    /\ UNCHANGED <<app, pc, key, ntype, existing, udata, resp, idem, status, queue, upd,
                   breakers, calls, bh, look, ttl, expired, used, after, h>>

\* is_rabbitmq_ready (events.py)
is_rabbitmq_ready ==
    mq.exchange /\ mq.connection = "open"

InitStartup ==
    /\ InitStore
    /\ mq = MqBoot

NextStartup ==
    \/ startup_redis
    \/ startup_await
    \/ connect
    \/ shutdown

SpecStartup == InitStartup /\ [][NextStartup]_vars

\* ------------------------------------------------------- circuit breakers

\* fail_max of each instance
fail_max(b) ==
    CASE b = "user_service" -> CIRCUIT_BREAKER_MAX_FAILURES
      [] b = "rabbitmq" -> 3
      [] b = "redis" -> 5

\* the breaker a function is called through: user_service_breaker decorates
\* both service methods, publish_notification has no breaker
breaker_of(site) ==
    CASE site = "user" -> "user_service"
      [] site = "template" -> "user_service"
      [] OTHER -> NoBreaker

\* an open breaker that lets every call through
breaker_rejects_never(br) ==
    FALSE

\* pybreaker, open state: a call is refused with CircuitBreakerError until
\* reset_timeout has passed since the breaker opened
breaker_rejects(br) ==
    br.state = "open" /\ ~br.elapsed

\* a wrapper that never looks at the state of its breaker
wrapper_rejects_never(br) ==
    FALSE

\* the test at the top of the async_circuit_breaker wrapper
wrapper_rejects(br) ==
    br.state = "open"

\* pybreaker after a call that returned: the counter is reset, and a call
\* let through after reset_timeout (half-open) closes the breaker
breaker_after_success(br) ==
    [state |-> "closed", fail_counter |-> 0, elapsed |-> FALSE]

\* pybreaker after a call that raised: the counter is incremented; a closed
\* breaker opens at fail_max, a half-open one opens again
breaker_after_failure(br, fm) ==
    IF br.state = "closed" /\ br.fail_counter + 1 < fm
      THEN [br EXCEPT !.fail_counter = @ + 1]
      ELSE [state |-> "open", fail_counter |-> br.fail_counter + 1, elapsed |-> FALSE]

\* how the function at a site reaches its breaker: the pybreaker decorator on
\* a coroutine function, async_circuit_breaker, sync_circuit_breaker, or not at all
style_of(site) ==
    CASE site \in {"user", "template"} -> "decorator"
      [] site = "wrapped" -> "async_wrapper"
      [] site = "wrapped_sync" -> "sync_wrapper"
      [] OTHER -> "unprotected"

FreeSlots == Slots \ {c.slot : c \in calls}
\* calls let through after reset_timeout that are still awaited, on breaker b
TrialsInFlight(b) == {c \in calls : c.breaker = b /\ c.trial}

streak_after(site, b, ok) ==
    IF ok THEN 0
    ELSE IF bh.streak_site = site /\ bh.streak_breaker = b THEN bh.streak + 1 ELSE 1

Rejected(site, b) ==
    bh' = [bh EXCEPT !.n = @ + 1, !.ev = "rejected", !.site = site, !.breaker = b,
                     !.trial = FALSE, !.ok = FALSE]

Started(site, b, trial) ==
    /\ FreeSlots # {}
    /\ LET slot == CHOOSE x \in FreeSlots : \A y \in FreeSlots : x <= y IN
       calls' = calls \cup {[slot |-> slot, site |-> site, breaker |-> b,
                              trial |-> trial,
                              during_trial |-> TrialsInFlight(b) # {}]}
    /\ bh' = [bh EXCEPT !.n = @ + 1, !.ev = "started", !.site = site, !.breaker = b,
                        !.trial = trial, !.ok = FALSE]

Finished(site, b, trial, ok) ==
    bh' = [n |-> IF style_of(site) \in {"sync_wrapper", "unprotected"}
                   THEN bh.n + 1 ELSE bh.n,
           ev |-> "finished", site |-> site, breaker |-> b, trial |-> trial, ok |-> ok,
           streak_site |-> site, streak_breaker |-> b,
           streak |-> streak_after(site, b, ok)]

\* a call of a method decorated with @user_service_breaker.  The method is
\* a coroutine function: CircuitBreaker.call sees it return a coroutine at
\* once and accounts a success; the caller then awaits the coroutine.
call_decorated(site) ==
    /\ bh.n < MaxCalls
    /\ breaker_of(site) # NoBreaker
    /\ LET b == breaker_of(site) IN
       IF breaker_rejects(breakers[b])
         THEN /\ Rejected(site, b)
              /\ UNCHANGED <<breakers, calls>>
         ELSE /\ Started(site, b, breakers[b].state = "open")
              /\ breakers' = [breakers EXCEPT ![b] = breaker_after_success(@)]
    /\ UNCHANGED <<app, pc, key, ntype, existing, udata, resp, idem, status, queue, upd,
                   look, expired, used, after, h, ttl, mq>>

\* a call of a function wrapped by async_circuit_breaker(b), up to its await
call_async_wrapper(b) ==
    /\ bh.n < MaxCalls
    /\ IF wrapper_rejects(breakers[b])
         THEN /\ Rejected("wrapped", b)
              /\ calls' = calls
         ELSE Started("wrapped", b, FALSE)
    /\ UNCHANGED <<app, pc, key, ntype, existing, udata, resp, idem, status, queue, upd,
                   breakers, look, expired, used, after, h, ttl, mq>>

\* the awaited call returns or raises.  Behind the decorator nothing is
\* accounted any more.  The wrapper goes on to breaker.call_succeeded() or
\* breaker.call_failed(): pybreaker.CircuitBreaker has neither method, the
\* AttributeError leaves the breaker as it was.
await_returns(c) ==
    /\ c \in calls
    /\ \E ok \in BOOLEAN : Finished(c.site, c.breaker, c.trial, ok)
    /\ calls' = calls \ {c}
    /\ UNCHANGED <<app, pc, key, ntype, existing, udata, resp, idem, status, queue, upd,
                   breakers, look, expired, used, after, h, ttl, mq>>

\* a call of a function wrapped by sync_circuit_breaker(b): breaker.call
\* runs the function and accounts its outcome
call_sync_wrapper(b) ==
    /\ bh.n < MaxCalls
    /\ IF breaker_rejects(breakers[b])
         THEN /\ Rejected("wrapped_sync", b)
              /\ breakers' = breakers
         ELSE \E ok \in BOOLEAN :
              /\ Finished("wrapped_sync", b, breakers[b].state = "open", ok)
              /\ breakers' = [breakers EXCEPT ![b] =
                                IF ok THEN breaker_after_success(@)
                                      ELSE breaker_after_failure(@, fail_max(b))]
    /\ UNCHANGED <<app, pc, key, ntype, existing, udata, resp, idem, status, queue, upd,
                   calls, look, expired, used, after, h, ttl, mq>>

\* QueueService.publish_notification as its callers reach it: no breaker
\* is consulted, the transport is contacted on every call
call_publish ==
    /\ bh.n < MaxCalls
    /\ \E out \in PublishOutcomes :
        Finished("publish", NoBreaker, FALSE, out = "ok")
    /\ UNCHANGED <<app, pc, key, ntype, existing, udata, resp, idem, status, queue, upd,
                   breakers, calls, look, expired, used, after, h, ttl, mq>>

\* reset_timeout seconds have passed since b opened
timeout_elapses(b) ==
    /\ breakers[b].state = "open" /\ ~breakers[b].elapsed
    /\ breakers' = [breakers EXCEPT ![b].elapsed = TRUE]
    /\ UNCHANGED <<app, pc, key, ntype, existing, udata, resp, idem, status, queue, upd,
                   calls, bh, look, expired, used, after, h, ttl, mq>>

\* reset_all_breakers: close() on each instance
reset_all_breakers ==
    /\ \E b \in Breakers : breakers[b].state # "closed"
    /\ breakers' = [b \in Breakers |-> NewBreaker]
    /\ bh' = [NoBreakerHist EXCEPT !.n = bh.n, !.ev = "reset"]
    /\ UNCHANGED <<app, pc, key, ntype, existing, udata, resp, idem, status, queue, upd,
                   calls, look, expired, used, after, h, ttl, mq>>

\* ------------------------------------------------------------ health

\* a readiness check that does not look at the breakers
readiness_check_without_breakers(store_up, transport_ready) ==
    IF ~store_up \/ ~transport_ready THEN 503 ELSE 200

\* readiness_check: the HTTP status of the answer
readiness_check(store_up, transport_ready) ==
    IF ~store_up \/ ~transport_ready \/ (\E b \in Breakers : breakers[b].state = "open")
      THEN 503 ELSE 200

\* liveness_check: the HTTP status of the answer
liveness_check ==
    200

\* GET /ready: the Redis ping answers or raises, is_rabbitmq_ready()
ready_probe ==
    /\ \E store_up \in BOOLEAN, transport_ready \in BOOLEAN :
        look' = {[NoLook EXCEPT !.endpoint = "ready",
                                !.code = readiness_check(store_up, transport_ready),
                                !.store_up = store_up,
                                !.transport_ready = transport_ready,
                                !.open = \E b \in Breakers : breakers[b].state = "open"]}
    /\ UNCHANGED <<app, pc, key, ntype, existing, udata, resp, idem, status, queue, upd,
                   breakers, calls, bh, expired, used, after, h, ttl, mq>>

\* GET /live, answered whatever the dependencies do
live_probe ==
    /\ \E store_up \in BOOLEAN, transport_ready \in BOOLEAN :
        look' = {[NoLook EXCEPT !.endpoint = "live",
                                !.code = liveness_check,
                                !.store_up = store_up,
                                !.transport_ready = transport_ready,
                                !.open = \E b \in Breakers : breakers[b].state = "open"]}
    /\ UNCHANGED <<app, pc, key, ntype, existing, udata, resp, idem, status, queue, upd,
                   breakers, calls, bh, expired, used, after, h, ttl, mq>>

InitBreaker ==
    /\ Init
    /\ app = "router"

NextBreaker ==
    \/ \E site \in Sites : call_decorated(site)
    \/ \E b \in Breakers : call_async_wrapper(b)
    \/ \E c \in calls : await_returns(c)
    \/ \E b \in Breakers : call_sync_wrapper(b)
    \/ call_publish
    \/ \E b \in Breakers : timeout_elapses(b)
    \/ reset_all_breakers
    \/ ready_probe
    \/ live_probe

SpecBreaker == InitBreaker /\ [][NextBreaker]_vars

\* ------------------------------------------------------------ vocabulary

Answered(r) == pc[r] = "done"
Accepted(r) == Answered(r) /\ resp[r].code = 202
\* r, a valid request, arrived after q had been answered, with q's key
Resubmits(q, r) ==
    /\ q \in after[r]
    /\ key[q] = key[r]
    /\ key[r] \in Keys
    /\ ntype[r] \in NotificationType
\* requests with key k whose message reached the broker
PublishersOf(k) == {r \in Reqs : key[r] = k /\ h[r].pubs > 0}
\* requests with key k that created the key -> id mapping
WinnersOf(k) == {r \in Reqs : key[r] = k /\ h[r].won}
\* main.py: the call of set_idempotency_key by r has returned
SetReturned(r) ==
    \/ h[r].won
    \/ pc[r] = "m_recheck"
    \/ Answered(r) /\ resp[r].code = 409
\* main.py: the store answered r's SET NX
SetAnswered(r) == h[r].won \/ h[r].lostTo # None
\* r is being answered in this step
Answering(r) == pc[r] # "done" /\ pc'[r] = "done"
\* r has left no trace in the Status Store or at the broker
NoSideEffect(r) ==
    /\ ~h[r].won /\ h[r].pubs = 0 /\ ~h[r].looked
    /\ \A k \in AllKeys : idem[k] # r
    /\ status[r] = NoRecord
    /\ \A m \in queue : m.notification_id # r
\* clock reading a was taken before clock reading b: update_status(n) reads
\* the clock after it found the record that the admission of n wrote
Before(a, b) == a[1] = "start" /\ b[1] = "update" /\ a[2] = b[2]
\* r's call of the publish has returned in this step
Published(r) == h'[r].pubs > h[r].pubs \/ (h'[r].pubFailed /\ ~h[r].pubFailed)
OptedIn(t, d) == (t = "email" /\ d.pref_email) \/ (t = "push" /\ d.pref_push)
HasContact(t, d) == (t = "email" /\ d.email) \/ (t = "push" /\ d.push_token)

\* ---------------------------------------------------------------- claims

\* C1: among the requests that carry one idempotency key whose lock has not
\* expired, at most one publishes a work item, and no request publishes
\* more than once.
C1_AtMostOnePublishPerKey ==
    /\ \A k \in Keys : ~expired[k] => Cardinality(PublishersOf(k)) <= 1
    /\ \A r \in Reqs : h[r].pubs <= 1

\* C1 witness: two overlapping requests with one key were both answered,
\* one published and the other did not.
C1_Witness ==
    \E q, r \in Reqs :
        /\ q # r /\ key[q] = key[r] /\ key[q] \in Keys /\ ~expired[key[q]]
        /\ q \notin after[r] /\ r \notin after[q]
        /\ Answered(q) /\ Answered(r)
        /\ h[q].pubs = 1 /\ h[r].pubs = 0
        /\ idem[key[q]] = q

\* C2 (as claimed): whenever a request with a fresh key is answered 202,
\* a StatusRecord with status queued is stored under its notification id.
C2_AcceptedHasQueuedRecord ==
    [][\A r \in Reqs :
        (Answering(r) /\ resp'[r].code = 202 /\ resp'[r].kind = "new")
            => status'[r].status = "queued"]_vars

C5_DuplicateReturnsStoredStatus ==
    [][\A r \in Reqs :
        (Answering(r) /\ resp'[r].kind = "dup")
            => /\ status[resp'[r].notification_id] # NoRecord
               /\ resp'[r].status = status[resp'[r].notification_id].status
               /\ status' = status /\ queue' = queue]_vars

\* C6 (as claimed): after an admission whose publish failed, a later request
\* with the same key, within the lock window, is answered with status failed
\* for the original notification id and does not publish.
C6_RetryReturnsRecordedFailure ==
    \A q, r \in Reqs :
        (/\ Resubmits(q, r) /\ Answered(r) /\ ~expired[key[r]]
         /\ h[q].pubFailed)
            => /\ resp[r].notification_id = q
               /\ resp[r].status = "failed"
               /\ h[r].pubs = 0

\* C7 (as claimed): a request that loses the lock-creation race is answered
\* with the winner's notification id, not with an error.
C7_LoserGetsWinnersId ==
    \A r \in Reqs :
        (Answered(r) /\ h[r].lostTo # None)
            => /\ resp[r].code = 202
               /\ resp[r].notification_id = h[r].lostTo

\* C8: a request whose notification_type is neither email nor push is
\* answered with the validation error and leaves no lock, no StatusRecord
\* and no work item.
C8_UnknownTypeRejected ==
    \A r \in Reqs :
        (pc[r] # "idle" /\ ntype[r] \notin NotificationType)
            => /\ Answered(r) /\ resp[r].code = 422
               /\ NoSideEffect(r)

\* C8 witness: a request of type sms with a key was answered, while another
\* request has created a lock.
C8_Witness ==
    \E q, r \in Reqs :
        /\ ntype[r] = "sms" /\ key[r] \in Keys /\ Answered(r)
        /\ h[q].won

C11_FailureLeavesFailedRecord ==
    [][\A r \in Reqs :
        (Answering(r) /\ h[r].won /\ resp'[r].code # 202)
            => /\ status'[r].status = "failed"
               /\ status'[r].error_message]_vars

\* C12: once a key is mapped to a notification id, no step changes or
\* removes the mapping except the expiry of its TTL.
C12_LockHeldUntilExpiry ==
    [][\A k \in Keys :
        idem[k] # None
            => \/ idem'[k] = idem[k]
               \/ /\ idem'[k] = None /\ expired'[k]
                  /\ used'.expiries = used.expiries + 1]_vars

\* C12 witness: one request was accepted and another failed at the publish,
\* and both keys are still mapped to their ids.
C12_Witness ==
    \E q, r \in Reqs :
        /\ q # r /\ h[q].won /\ h[r].won
        /\ Accepted(q) /\ Answered(r) /\ h[r].pubFailed /\ resp[r].code # 202
        /\ idem[key[q]] = q /\ idem[key[r]] = r

\* C13: a request that won the lock and is answered 202 has published its
\* work item: the publish call returned without error and the item is at
\* the broker.
C13_AcceptedNewWasPublished ==
    \A r \in Reqs :
        (Accepted(r) /\ h[r].won)
            => /\ h[r].pubs = 1 /\ ~h[r].pubFailed
               /\ \E m \in queue : m.notification_id = r

\* C13 witness: one lock holder was accepted, another was answered with an
\* error after its publish failed.
C13_Witness ==
    \E q, r \in Reqs :
        /\ h[q].won /\ Accepted(q) /\ h[q].pubs = 1
        /\ h[r].won /\ Answered(r) /\ h[r].pubFailed /\ resp[r].code \in {500, 503}
        /\ \A m \in queue : m.notification_id # r

\* C14: within one admission the preference lookup is made only by the
\* holder of the lock, the publish is called only after the lock was taken
\* and (in the handler that looks preferences up) the lookup succeeded, and
\* the queued status is written only after the publish went through.
C14_StepsInOrder ==
    [][\A r \in Reqs :
        /\ (pc[r] = "r_lookup" /\ pc'[r] # "r_lookup") => h[r].won
        /\ Published(r) => (h[r].won /\ (app = "router" => h[r].looked))
        /\ (status'[r] # status[r] /\ status'[r].status = "queued")
               => (h[r].won /\ h[r].pubs = 1)]_vars

\* C14 witness: a request went through lock, lookup, publish and the queued
\* status write, and was accepted.
C14_Witness ==
    \E r \in Reqs :
        /\ app = "router" /\ Accepted(r) /\ h[r].won /\ h[r].looked /\ h[r].pubs = 1
        /\ status[r].status = "queued"
        /\ \E m \in queue : m.notification_id = r

\* C15: breaker-open rejection, not-found response, other non-2xx response
\* and connection failure are answered with four pairwise distinct HTTP
\* statuses, and every request whose lookup failed is answered with the
\* status of its failure mode.
C15_LookupFailuresDistinct ==
    /\ \A f, g \in LookupFailures \cup {"breaker_open"} :
           f # g => lookup_failure_code(f) # lookup_failure_code(g)
    /\ \A q, r \in Reqs :
           (h[q].lookupFail # "none" /\ h[r].lookupFail # "none")
               => /\ Answered(q) /\ resp[q].code = lookup_failure_code(h[q].lookupFail)
                  /\ h[q].lookupFail # h[r].lookupFail => resp[q].code # resp[r].code

\* C15 witness: two requests were answered after lookups that failed in
\* different ways, one with not-found and one with another HTTP status.
C15_Witness ==
    \E q, r \in Reqs :
        /\ Answered(q) /\ h[q].lookupFail = "status_404"
        /\ Answered(r) /\ h[r].lookupFail = "status_other"

\* C16: after a successful lookup, a recipient opted out of the requested
\* channel is answered 403, one opted in without the contact field of the
\* channel is answered 400, and every other recipient goes on to the
\* publish whatever the preference of the other channel is.
C16_PolicyOutcomes ==
    \A r \in Reqs :
        (app = "router" /\ h[r].looked /\ udata[r] # NoUser)
            => IF ~OptedIn(ntype[r], udata[r])
                 THEN Answered(r) /\ resp[r].code = 403
                 ELSE IF ~HasContact(ntype[r], udata[r])
                   THEN Answered(r) /\ resp[r].code = 400
                   ELSE pc[r] = "r_publish"

\* C16 witness: one recipient, opted out of the other channel only, goes on
\* to the publish, while a recipient opted in without the contact field was
\* answered 400.
C16_Witness ==
    \E q, r \in Reqs :
        /\ app = "router" /\ pc[q] = "r_publish"
        /\ OptedIn(ntype[q], udata[q]) /\ ~(udata[q].pref_email /\ udata[q].pref_push)
        /\ Answered(r) /\ resp[r].code = 400
        /\ OptedIn(ntype[r], udata[r]) /\ ~HasContact(ntype[r], udata[r])

\* C17 (as claimed): a request whose lock acquisition hit a store error is
\* answered 503.
C17_StoreErrorUnavailable ==
    \A r \in Reqs :
        (/\ Answered(r)
         /\ \/ app = "main" /\ SetReturned(r) /\ ~SetAnswered(r)
            \/ app = "router" /\ h[r].storeErr)
            => resp[r].code = 503

\* C18: when update_status writes delivered over a record that
\* set_initial_status wrote, get_status returns status delivered, the same
\* notification id and created_at, and an updated_at later than created_at.
C18_DeliveredRoundTrip ==
    [][\A n \in Nids :
        (/\ upd[Worker].nid = n /\ upd[Worker].new_status = "delivered"
         /\ upd'[Worker] = NoUpd /\ status'[n] # status[n])
            => /\ get_status(n, TRUE)'.status = "delivered"
               /\ get_status(n, TRUE)'.notification_id = n
               /\ get_status(n, TRUE)'.created_at = current_time(n)
               /\ get_status(n, TRUE)'.created_at = upd[Worker].rec.created_at
               /\ Before(get_status(n, TRUE)'.created_at,
                         get_status(n, TRUE)'.updated_at)]_vars

\* C18 witness: a record written as queued is stored as delivered.
C18_Witness ==
    \E n \in Nids :
        /\ Accepted(n) /\ resp[n].status = "queued"
        /\ status[n].status = "delivered" /\ status[n].notification_id = n
        /\ upd[Worker] = NoUpd

C20_AbsentDistinctFromFailure ==
    \A n \in Nids :
        status[n] = NoRecord
            => /\ get_status(n, FALSE) # get_status(n, TRUE)
               /\ get_notification_status(n, FALSE) # get_notification_status(n, TRUE)

\* ------------------------------------------------------------ status lookup
StatusValues == {"pending", "queued", "processing", "delivered", "failed"}

\* C21: the status lookup answers 200 with the current record whenever a
\* record is stored for the identifier, 404 whenever none is stored, and
\* nothing else.  Not so: get_status answers a Redis error with None and the
\* lookup then says 404 although the record is stored.
C21_LookupFollowsStore ==
    \A l \in look :
        l.endpoint = "status" =>
            IF l.stored # NoRecord
              THEN l.code = 200 /\ l.body = l.stored
              ELSE l.code = 404

\* C22: the status of every stored record is one of the five values; an
\* update with any other value is rejected.  Not so: update_status writes
\* whatever new_status it is given.
C22_StatusValuesOnly ==
    \A n \in Nids : status[n] # NoRecord => status[n].status \in StatusValues

\* -------------------------------------------------- health and breakers

\* a protected call is made through b in this step
CallThrough(b) == bh'.n = bh.n + 1 /\ bh'.breaker = b
\* the function at site s is called in this step
CallTo(s) == bh'.n = bh.n + 1 /\ bh'.site = s
\* the functions whose awaited call a breaker is to account
AsyncSites == {"user", "template", "wrapped"}

\* C23: the readiness check answers 503 whenever the Status Store does not
\* answer, the queue transport is not ready or a breaker is open; the
\* liveness check answers 200 in every one of those states.
C23_ReadinessAndLiveness ==
    \A l \in look :
        /\ l.endpoint = "ready" /\ (~l.store_up \/ ~l.transport_ready \/ l.open)
              => l.code = 503
        /\ l.endpoint = "live" => l.code = 200

C23_Witness ==
    \E l \in look :
        /\ l.endpoint = "ready" /\ l.code = 503
        /\ l.store_up /\ l.transport_ready /\ l.open

\* C24: after fail_max consecutive failures of the awaited call of a
\* breaker-protected asynchronous function, its breaker is open.  Not so:
\* the decorator accounts the returned coroutine as a success, and the
\* wrapper's accounting calls do not exist on the breaker.
C24_OpensAtFailMax ==
    (/\ bh.streak_site \in AsyncSites
     /\ bh.streak_breaker # NoBreaker
     /\ bh.streak >= fail_max(bh.streak_breaker))
        => breakers[bh.streak_breaker].state = "open"

\* C25: while a breaker is open and reset_timeout has not passed, every
\* call through it is rejected without the protected function being called,
\* and the rejection leaves the failure counter as it was.
C25_OpenRejects ==
    [][\A b \in Breakers :
         (breakers[b].state = "open" /\ ~breakers[b].elapsed /\ CallThrough(b))
            => /\ bh'.ev = "rejected"
               /\ calls' = calls
               /\ breakers'[b] = breakers[b]]_vars

C25_Witness ==
    /\ bh.ev = "rejected"
    /\ style_of(bh.site) \in {"decorator", "sync_wrapper"}
    /\ breakers[bh.breaker].state = "open"
    /\ ~breakers[bh.breaker].elapsed
    /\ breakers[bh.breaker].fail_counter >= fail_max(bh.breaker)

\* C26: once reset_timeout has passed since a breaker opened, the next call
\* through it is let through as a trial and the breaker is half-open while
\* the trial runs.  Not so: the wrapper refuses every call while the state
\* is open, and behind the decorator the breaker is closed before the trial
\* is awaited.
C26_TrialAfterTimeout ==
    [][\A b \in Breakers :
         (breakers[b].state = "open" /\ breakers[b].elapsed /\ CallThrough(b))
            => /\ bh'.ev # "rejected"
               /\ bh'.ev = "started" => breakers'[b].state = "half-open"]_vars

\* C27: of the calls that arrive when a breaker may be tried again, at most
\* one calls the protected function; the others are rejected until the
\* outcome of the trial is accounted.  Not so: behind the decorator the
\* breaker is closed as soon as the trial starts.
C27_OneTrialAtATime ==
    \A c \in calls : ~c.during_trial

\* a trial call ends in this step, with bh'.ok as its outcome
TrialEnds(b) ==
    \/ \E c \in calls : c.trial /\ c.breaker = b /\ c \notin calls'
    \/ CallThrough(b) /\ bh'.ev = "finished" /\ bh'.trial

\* C28: a trial that succeeds closes the breaker with the counter at zero;
\* a trial that fails opens it again and restarts the reset timer.  Not so:
\* behind the decorator the failure of the awaited trial is not accounted.
C28_TrialOutcome ==
    [][\A b \in Breakers :
         TrialEnds(b) =>
            IF bh'.ok
              THEN breakers'[b].state = "closed" /\ breakers'[b].fail_counter = 0
              ELSE breakers'[b].state = "open" /\ ~breakers'[b].elapsed]_vars

\* C29: after fail_max (3) consecutive publish failures the rabbitmq
\* breaker makes publish_notification fail fast, without the transport
\* being contacted.  Not so: publish_notification is called through no
\* breaker.
C29_PublishFailsFast ==
    [][(/\ bh.streak_site = "publish"
        /\ bh.streak >= fail_max("rabbitmq")
        /\ CallTo("publish"))
          => bh'.ev = "rejected"]_vars

\* C30: every protected dependency has a breaker of its own, and a call of
\* one dependency leaves the breaker of every other dependency as it was.
\* Not so: the template service is called through user_service_breaker.
C30_OwnBreaker ==
    [][\A s \in {"user", "template"} : \A t \in {"user", "template"} \ {s} :
         CallTo(s) => breakers'[breaker_of(t)] = breakers[breaker_of(t)]]_vars

\* ------------------------------------------------------ record lifetime

\* the update_status call pending in upd[Worker] writes its record in this step
Written(n) ==
    /\ upd[Worker].nid = n /\ upd'[Worker] = NoUpd
    /\ status'[n] # status[n] \/ ttl'[n] # ttl[n]

\* C31: every update_status that writes resets the lifetime of the record
\* to the full window and sets updated_at to the time of the update; a
\* record is dropped only by the tick that ends a full window without a
\* write, so a record updated within each window is never dropped.
C31_UpdateRefreshesLifetime ==
    [][\A n \in Nids :
        /\ Written(n)
              => /\ ttl'[n] = STATUS_TTL_SECONDS
                 /\ status'[n].updated_at = <<"update", n>>
                 /\ status'[n].status = upd[Worker].new_status
        /\ (status[n] # NoRecord /\ status'[n] = NoRecord)
              => /\ ttl[n] = 1
                 /\ used'.ticks = used.ticks + 1
        /\ (status[n] # NoRecord /\ ~Written(n) /\ used'.ticks = used.ticks)
              => ttl'[n] = ttl[n]]_vars

\* C31 witness: a record updated during its window is still stored after
\* as many ticks as a whole window has.
C31_Witness ==
    \E n \in Nids :
        /\ used.ticks >= STATUS_TTL_SECONDS
        /\ status[n].status = "delivered" /\ status[n].updated_at = <<"update", n>>
        /\ ttl[n] > 0

\* ------------------------------------------------------------ work items

\* C32: every published work item reaches the queue of its own channel and
\* no other, is persistent, and carries the correlation identifier and the
\* notification identifier as message properties.  Not so: publish_message
\* of main.py puts the notification identifier in the body only.
C32_RoutedPersistentTagged ==
    \A m \in queue :
        /\ destination(m) = channel_queue(m.notification_type)
        /\ m.persistent
        /\ m.correlation_id # "none"
        /\ m.message_id = m.notification_id

\* C35: when a work item is at the broker, the StatusRecord of its
\* notification id is stored (until it expires), so that an update_status
\* call of a worker finds it.  Not so: endpoints/notifications.py publishes
\* before it calls set_initial_status, and main.py stores no record at all.
C35_RecordStoredWhenPublished ==
    \A m \in queue :
        used.expiries = 0 => status[m.notification_id] # NoRecord

\* ---------------------------------------------------- concurrent updates

\* the update_status call of c writes its record in this step
Writes(c) ==
    /\ upd[c] # NoUpd /\ upd'[c] = NoUpd
    /\ status' # status \/ ttl' # ttl

\* C36: when two update_status calls for one id overlap, the record stored
\* after both equals the two updates applied one after the other in some
\* order.  Stated at the write of the call that finishes last, the other
\* call having written since this one read: the record the other call left
\* gives its status and whether it came with an error.  Not so: the second
\* write puts back the copy it read, without the error_message of the first.
C36_UpdatesSerializable ==
    [][\A c \in Workers :
        LET u == upd[c]
            n == u.nid
            mine == update_status_record(u.rec, u.new_status, u.error_message)
        IN  (/\ Writes(c)
             /\ status[n] # NoRecord /\ status[n] # u.rec
             /\ ~u.rec.error_message)
                => status'[n] \in
                     { update_status_record(status[n], u.new_status, u.error_message),
                       update_status_record(mine, status[n].status,
                                            status[n].error_message) }]_vars

\* C37: a write of update_status differs from the record the call read in
\* status and updated_at only, and in error_message when an error is
\* supplied: notification_id and created_at are those read, an
\* error_message stored by an earlier update is kept by a later update
\* without error, and the records of other ids are left alone.
C37_UpdateFrame ==
    [][\A c \in Workers :
        LET u == upd[c]
            n == u.nid
        IN  Writes(c)
                => /\ status'[n].notification_id = u.rec.notification_id
                   /\ status'[n].created_at = u.rec.created_at
                   /\ status'[n].status = u.new_status
                   /\ status'[n].updated_at = <<"update", n>>
                   /\ status'[n].error_message = (u.error_message \/ u.rec.error_message)
                   /\ (status[n] = u.rec /\ status[n].error_message)
                          => status'[n].error_message
                   /\ \A m \in Nids \ {n} : status'[m] = status[m]]_vars

\* C37 witness: a record that an update marked failed with an error was
\* then updated to delivered without error, and keeps the error_message,
\* its notification id and its created_at.
C37_Witness ==
    \E n \in Nids :
        /\ status[n].status = "delivered" /\ status[n].error_message
        /\ status[n].notification_id = n /\ status[n].created_at = current_time(n)
        /\ used.updates = 2
        /\ \A c \in Workers : upd[c] = NoUpd

\* --------------------------------------------------------------- startup

\* the whole topology stands at the broker: dead-letter exchange and failed
\* queue, main exchange, both primary queues declared and bound
TopologyComplete ==
    /\ mq.declared = Declarations
    /\ \A q \in PrimaryQueues : mq.queues[q] # "absent"

\* C33: a primary queue that the gateway has declared dead-letters into the
\* failed-message destination.  Not so: QueueService.connect declares both
\* primary queues without arguments.
C33_PrimaryQueuesDeadLetter ==
    \A q \in PrimaryQueues : mq.queues[q] # "absent" => mq.queues[q] = "dlx"

\* C34: startup makes at most max_retries attempts, makes no attempt after
\* one that went through, and raises when every attempt has failed.  Not
\* so: startup_event of main.py makes one attempt and returns normally
\* when it fails.
C34_BoundedFatalStartup ==
    /\ mq.attempt <= max_retries
    /\ mq.ok => mq.phase = "up"
    /\ mq.phase = "up" => mq.ok

\* C38: is_rabbitmq_ready() is true only when an attempt has completed the
\* whole topology setup and the connection is open.  Not so: the exchange
\* global is assigned before the primary queues are declared and is kept
\* by an attempt that fails after that.
C38_ReadyOnlyWhenComplete ==
    (app = "router" /\ is_rabbitmq_ready)
        => /\ mq.ok /\ TopologyComplete
           /\ mq.connection = "open"

\* ------------------------------------------------------ lock and publish

\* the lock acquisition of r hit a Status Store error
LockStoreError(r) ==
    \/ app = "main" /\ SetReturned(r) /\ ~SetAnswered(r)
    \/ app = "router" /\ h[r].storeErr

\* C39: a request publishes only after it won the lock of its key, the
\* work item carries the notification id that the request stored in the
\* idempotency mapping (still mapped unless the key has expired), and a
\* request whose lock acquisition hit a Status Store error publishes
\* nothing.
C39_PublishOnlyByLockHolder ==
    [][\A r \in Reqs :
        /\ h'[r].pubs > h[r].pubs
              => /\ h[r].won /\ ~LockStoreError(r)
                 /\ idem[key[r]] = r \/ expired[key[r]]
                 /\ \E m \in queue' \ queue : m.notification_id = r
                 /\ \A m \in queue' \ queue : m.notification_id = r
        /\ LockStoreError(r) => h'[r].pubs = 0]_vars

\* C39 witness: one request published the work item of the id it holds the
\* lock with, another was turned away by a Status Store error at the lock
\* and published nothing.
C39_Witness ==
    \E q, r \in Reqs :
        /\ h[r].won /\ h[r].pubs = 1 /\ idem[key[r]] = r
        /\ \E m \in queue : m.notification_id = r
        /\ Answered(q) /\ LockStoreError(q) /\ h[q].pubs = 0
        /\ \A m \in queue : m.notification_id # q

====
